---- MODULE Spec2Model ----
(***************************************************************************)
(* Model of breakout_analyzer.py: one run of main() after "Generate        *)
(* Report" is pressed.  A DataFrame is a record [columns, rows]; each row  *)
(* carries its index label in the field "name" (pandas' row.name).         *)
(* DataFrames live in a heap of objects so that in-place column            *)
(* assignment is visible.  Numbers that pandas holds as floats are kept as *)
(* exact fractions [nan, num, den] with den > 0.  The inputs enumerated    *)
(* below are chosen so that every comparison the code makes in floats has  *)
(* the outcome of the exact comparison: the rolling means are whole        *)
(* numbers, volume_threshold / 100 is 0.0, 1.0 or 2.0, and the percent     *)
(* changes are 25.0, 0.0 and -20 (up to rounding), of which only 25.0 and  *)
(* 0.0 ever meet a threshold.                                              *)
(***************************************************************************)
EXTENDS Integers, Sequences, FiniteSets, TLC

VARIABLES pc, volume_threshold, price_change_threshold, holding_period,
          heap, data, breakout_days, ui, csv, calls, pre_identify, pre_calc

vars == <<pc, volume_threshold, price_change_threshold, holding_period,
          heap, data, breakout_days, ui, csv, calls, pre_identify, pre_calc>>

-----------------------------------------------------------------------------
(* Bounds of the model and the inputs that are enumerated.                 *)

MaxLen == 22
ShortLen == 2
TailLen == 3
MaxHold == 3

Window == 20

Closes == {100, 125}
Volumes == {10, 30}
VolumeThresholds == {0, 100, 200}
PriceThresholds == {2, 25}

MinOf(S) == CHOOSE x \in S : \A y \in S : x <= y
MaxOf(S) == CHOOSE x \in S : \A y \in S : y <= x

-----------------------------------------------------------------------------
(* Float values: a fraction, or NaN.                                       *)

NaN == [nan |-> TRUE, num |-> 0, den |-> 1]
Frac(n, d) == [nan |-> FALSE, num |-> n, den |-> d]
FromInt(n) == Frac(n, 1)

Mul(a, b) ==
    IF a.nan \/ b.nan THEN NaN ELSE Frac(a.num * b.num, a.den * b.den)

(* Variants of the comparison: NaN read as zero, and a non-strict test.    *)
Gt_nan_as_zero(a, b) ==
    LET x == IF a.nan THEN FromInt(0) ELSE a
        y == IF b.nan THEN FromInt(0) ELSE b
    IN  x.num * y.den > y.num * x.den

Gt_or_equal(a, b) ==
    /\ ~a.nan
    /\ ~b.nan
    /\ a.num * b.den >= b.num * a.den

(* a > b as pandas evaluates it elementwise: False when either is NaN.     *)
Gt(a, b) ==
    /\ ~a.nan
    /\ ~b.nan
    /\ a.num * b.den > b.num * a.den

(* Equality of two float values as numbers.                                *)
SameValue(a, b) ==
    \/ a.nan /\ b.nan
    \/ ~a.nan /\ ~b.nan /\ a.num * b.den = b.num * a.den

-----------------------------------------------------------------------------
(* The series the data source can supply: Date strictly increasing, Close  *)
(* positive, Volume non-negative.  A series of n days is flat at the       *)
(* lowest close and volume, except for its last TailLen days, which are    *)
(* free, and optionally a jump in close and volume on its second day.      *)
(* The lengths are the short ones up to ShortLen and those from one day    *)
(* less than the rolling window up to MaxLen.                              *)

Lengths == (0..ShortLen) \cup ((Window - 1)..MaxLen)

Tails == [1..TailLen -> Closes \X Volumes]

Observation(n, early, tail, i) ==
    LET k == i - (n - TailLen)
    IN  IF k >= 1
        THEN [Date |-> i, Close |-> tail[k][1], Volume |-> tail[k][2]]
        ELSE IF early /\ i = 2
        THEN [Date |-> i, Close |-> MaxOf(Closes), Volume |-> MaxOf(Volumes)]
        ELSE [Date |-> i, Close |-> MinOf(Closes), Volume |-> MinOf(Volumes)]

SeriesOf(n, early, tail) == [i \in 1..n |-> Observation(n, early, tail, i)]

-----------------------------------------------------------------------------
(* fetch_and_prepare_data                                                  *)

RawColumns == {"Date", "Close", "Volume"}
EnrichedColumns == RawColumns \cup {"avg_volume_20d", "daily_pct_change"}

RECURSIVE SumVolume(_, _, _)
SumVolume(series, from, to) ==
    IF from > to THEN 0
    ELSE series[to].Volume + SumVolume(series, from, to - 1)

(* Variant of the rolling mean with min_periods=1.                         *)
rolling_mean_min_periods_1(series, p) ==
    IF p < Window THEN Frac(SumVolume(series, 1, p), p)
    ELSE Frac(SumVolume(series, p - Window + 1, p), Window)

(* Series.rolling(window=20).mean() at 1-based position p: min_periods     *)
(* defaults to the window, so the first window-1 positions are NaN.        *)
rolling_mean(series, p) ==
    IF p < Window THEN NaN
    ELSE Frac(SumVolume(series, p - Window + 1, p), Window)

(* Series.pct_change() * 100 at 1-based position p.                        *)
pct_change(series, p) ==
    IF p < 2 THEN NaN
    ELSE Frac((series[p].Close - series[p - 1].Close) * 100,
              series[p - 1].Close)

(* reset_index gives the rows the labels 0 .. n-1.                         *)
reset_index_label(p) == p - 1

fetch_and_prepare_data(series) ==
    [columns |-> EnrichedColumns,
     rows |-> [p \in 1..Len(series) |->
                 [name |-> reset_index_label(p),
                  Date |-> series[p].Date,
                  Close |-> series[p].Close,
                  Volume |-> series[p].Volume,
                  avg_volume_20d |-> rolling_mean(series, p),
                  daily_pct_change |-> pct_change(series, p)]]]

-----------------------------------------------------------------------------
(* identify_breakout_days                                                  *)

(* Variant of the predicate with the price comparison reversed.            *)
IsBreakout_price_below(row, vt, pt) ==
    /\ Gt(FromInt(row.Volume), Mul(Frac(vt, 100), row.avg_volume_20d))
    /\ Gt(FromInt(pt), row.daily_pct_change)

IsBreakout(row, vt, pt) ==
    /\ Gt(FromInt(row.Volume), Mul(Frac(vt, 100), row.avg_volume_20d))
    /\ Gt(row.daily_pct_change, FromInt(pt))

(* Variant in which the filter is applied to the frame itself.             *)
mask_result_in_place(src) == src

(* Boolean-mask indexing returns a new object, not the frame indexed.      *)
mask_result(src) == "b1"

(* Boolean-mask indexing: a new frame with the selected rows, their        *)
(* labels kept.                                                            *)
identify_breakout_days(df, vt, pt) ==
    [columns |-> df.columns,
     rows |-> SelectSeq(df.rows, LAMBDA row : IsBreakout(row, vt, pt))]

-----------------------------------------------------------------------------
(* calculate_holding_returns                                               *)

HasLabel(df, label) == \E k \in 1..Len(df.rows) : df.rows[k].name = label

(* data.loc[label, 'Close']                                                *)
LocClose(df, label) ==
    LET k == CHOOSE k \in 1..Len(df.rows) : df.rows[k].name = label
    IN  df.rows[k].Close

(* Variant that offsets from the row's position in breakout_days.          *)
holding_end_index_in_subset(row, k, hp) == (k - 1) + hp

(* holding_end_index = breakout_index + holding_period, with               *)
(* breakout_index = row.name; k is the row's position in breakout_days.    *)
holding_end_index(row, k, hp) == row.name + hp

(* Variant of the bound check that admits the index len(data).             *)
EnoughDays_inclusive(df, end_index) == end_index <= Len(df.rows)

EnoughDays(df, end_index) == end_index < Len(df.rows)

holding_return(df, row, k, hp) ==
    IF EnoughDays(df, holding_end_index(row, k, hp))
    THEN Frac((LocClose(df, holding_end_index(row, k, hp)) - row.Close) * 100,
              row.Close)
    ELSE NaN

(* Variant in which assigning an empty list to an empty frame raises.      *)
Raises_on_empty(df, bd, hp) ==
    \/ Len(bd.rows) = 0
    \/ \E k \in 1..Len(bd.rows) :
          /\ EnoughDays(df, holding_end_index(bd.rows[k], k, hp))
          /\ ~HasLabel(df, holding_end_index(bd.rows[k], k, hp))

(* data.loc raises KeyError for a label that is not in the index.          *)
RaisesKeyError(df, bd, hp) ==
    \E k \in 1..Len(bd.rows) :
        /\ EnoughDays(df, holding_end_index(bd.rows[k], k, hp))
        /\ ~HasLabel(df, holding_end_index(bd.rows[k], k, hp))

(* breakout_days.loc[:, 'holding_return'] = returns: the frame as it is    *)
(* after the assignment.                                                   *)
calculate_holding_returns(df, bd, hp) ==
    [columns |-> bd.columns \cup {"holding_return"},
     rows |-> [k \in 1..Len(bd.rows) |->
                 [f \in (DOMAIN bd.rows[k]) \cup {"holding_return"} |->
                    IF f = "holding_return"
                    THEN holding_return(df, bd.rows[k], k, hp)
                    ELSE bd.rows[k][f]]]]

-----------------------------------------------------------------------------
(* main                                                                    *)

(* Variant of the emptiness test that looks at the columns.                *)
empty_no_columns(df) == df.columns = {}

(* DataFrame.empty                                                         *)
empty(df) == Len(df.rows) = 0

NoFile == [written |-> FALSE, columns |-> {}, rows |-> <<>>]

Init ==
    /\ pc = "button"
    /\ volume_threshold \in VolumeThresholds
    /\ price_change_threshold \in PriceThresholds
    /\ holding_period \in 1..MaxHold
    /\ heap = [o \in {} |-> NoFile]
    /\ data = "None"
    /\ breakout_days = "None"
    /\ ui = <<>>
    /\ csv = NoFile
    /\ calls = <<>>
    /\ pre_identify = heap
    /\ pre_calc = [heap |-> heap, bd |-> "None"]

(* fetch_and_prepare_data returns the prepared frame.                      *)
FetchOk ==
    /\ pc = "button"
    /\ \E n \in Lengths, early \in BOOLEAN, tail \in Tails :
          heap' = ("d1" :> fetch_and_prepare_data(SeriesOf(n, early, tail)))
                    @@ heap
    /\ data' = "d1"
    /\ calls' = Append(calls, "fetch")
    /\ pc' = "fetched"
    /\ UNCHANGED <<volume_threshold, price_change_threshold, holding_period,
                   breakout_days, ui, csv, pre_identify, pre_calc>>

(* yf.download raised: st.error, return None; main does nothing more.      *)
FetchFail ==
    /\ pc = "button"
    /\ data' = "None"
    /\ ui' = Append(ui, "error")
    /\ calls' = Append(calls, "fetch")
    /\ pc' = "done"
    /\ UNCHANGED <<volume_threshold, price_change_threshold, holding_period,
                   heap, breakout_days, csv, pre_identify, pre_calc>>

Identify ==
    /\ pc = "fetched"
    /\ data # "None"
    /\ pre_identify' = heap
    /\ heap' = (mask_result(data) :>
                    identify_breakout_days(heap[data], volume_threshold,
                                           price_change_threshold))
                  @@ heap
    /\ breakout_days' = mask_result(data)
    /\ calls' = Append(calls, "identify")
    /\ pc' = "identified"
    /\ UNCHANGED <<volume_threshold, price_change_threshold, holding_period,
                   data, ui, csv, pre_calc>>

(* The column is assigned into the object passed in, which is returned.    *)
Calculate ==
    /\ pc = "identified"
    /\ pre_calc' = [heap |-> heap, bd |-> breakout_days]
    /\ calls' = Append(calls, "calculate")
    /\ IF RaisesKeyError(heap[data], heap[breakout_days], holding_period)
       THEN /\ pc' = "crashed"
            /\ UNCHANGED <<heap, breakout_days>>
       ELSE /\ heap' = [heap EXCEPT ![breakout_days] =
                          calculate_holding_returns(heap[data],
                                                    heap[breakout_days],
                                                    holding_period)]
            /\ breakout_days' = breakout_days
            /\ pc' = "calculated"
    /\ UNCHANGED <<volume_threshold, price_change_threshold, holding_period,
                   data, ui, csv, pre_identify>>

(* not breakout_days.empty: generate_report, then the statistics table.    *)
Report ==
    /\ pc = "calculated"
    /\ ~empty(heap[breakout_days])
    /\ csv' = [written |-> TRUE,
               columns |-> heap[breakout_days].columns,
               rows |-> heap[breakout_days].rows]
    /\ ui' = ui \o <<"success", "download_button", "statistics", "dataframe">>
    /\ calls' = Append(calls, "report")
    /\ pc' = "done"
    /\ UNCHANGED <<volume_threshold, price_change_threshold, holding_period,
                   heap, data, breakout_days, pre_identify, pre_calc>>

(* breakout_days.empty: st.warning.                                        *)
Warn ==
    /\ pc = "calculated"
    /\ empty(heap[breakout_days])
    /\ ui' = Append(ui, "warning")
    /\ pc' = "done"
    /\ UNCHANGED <<volume_threshold, price_change_threshold, holding_period,
                   heap, data, breakout_days, csv, calls, pre_identify,
                   pre_calc>>

Next == FetchOk \/ FetchFail \/ Identify \/ Calculate \/ Report \/ Warn

Spec == Init /\ [][Next]_vars

-----------------------------------------------------------------------------
(* Vocabulary for the properties.  Days are counted from 0, as the index   *)
(* labels of the fetched frame are.                                        *)

Data == heap[data]
Breakouts == heap[breakout_days]

HasData == data # "None"
HasBreakouts == breakout_days # "None"
Range(seq) == {seq[k] : k \in 1..Len(seq)}
LabelSet(df) == {df.rows[k].name : k \in 1..Len(df.rows)}

NumDays == Len(Data.rows)
Day(t) == Data.rows[t + 1]
CloseAt(t) == Day(t).Close

RECURSIVE VolumeTotal(_)
VolumeTotal(days) ==
    IF days = {} THEN 0
    ELSE LET t == CHOOSE t \in days : TRUE
         IN  Day(t).Volume + VolumeTotal(days \ {t})

(* The first n observations of the fetched frame, as the source gave them. *)
RawSeries(n) ==
    [q \in 1..n |-> [Date |-> Data.rows[q].Date,
                     Close |-> Data.rows[q].Close,
                     Volume |-> Data.rows[q].Volume]]

(* The selection predicate of day t, in integer arithmetic.                *)
Qualifies(t, vt, pt) ==
    LET r == Day(t)
    IN  /\ ~r.avg_volume_20d.nan
        /\ ~r.daily_pct_change.nan
        /\ r.Volume * 100 * r.avg_volume_20d.den > vt * r.avg_volume_20d.num
        /\ r.daily_pct_change.num > pt * r.daily_pct_change.den

-----------------------------------------------------------------------------
(* C1: once calculate_holding_returns has returned, every breakout row     *)
(* with label i has holding_return = (close[i+h] - close[i]) / close[i] *  *)
(* 100, close[i+h] read at absolute position i+h of the full series, when  *)
(* i+h < len(series), and an undefined holding_return otherwise.           *)
Thm_C1 ==
    pc = "calculated" =>
        \A k \in 1..Len(Breakouts.rows) :
            LET r == Breakouts.rows[k]
                i == r.name
                j == i + holding_period
            IN  IF j < NumDays
                THEN /\ ~r.holding_return.nan
                     /\ r.holding_return.num * CloseAt(i)
                          = (CloseAt(j) - CloseAt(i)) * 100
                              * r.holding_return.den
                ELSE r.holding_return.nan

Wit_C1 ==
    /\ pc = "calculated"
    /\ \E k \in 1..Len(Breakouts.rows) :
          /\ ~Breakouts.rows[k].holding_return.nan
          /\ Breakouts.rows[k].holding_return.num # 0
          /\ CloseAt((k - 1) + holding_period)
               # CloseAt(Breakouts.rows[k].name + holding_period)
    /\ \E k \in 1..Len(Breakouts.rows) : Breakouts.rows[k].holding_return.nan

(* C2: with a zero or negative volume threshold or holding period no       *)
(* breakout subset and no holding return is ever produced.                 *)
Cex_C2 ==
    (volume_threshold <= 0 \/ holding_period <= 0) =>
        /\ breakout_days = "None"
        /\ "identify" \notin Range(calls)
        /\ "calculate" \notin Range(calls)
        /\ ~csv.written

(* C3: no selected row has an undefined rolling average or percent change, *)
(* no selected row has a label below 19, and a series of fewer than 20     *)
(* observations gives an empty breakout subset.                            *)
Thm_C3 ==
    HasBreakouts =>
        /\ \A k \in 1..Len(Breakouts.rows) :
              /\ ~Breakouts.rows[k].avg_volume_20d.nan
              /\ ~Breakouts.rows[k].daily_pct_change.nan
              /\ Breakouts.rows[k].name >= 19
        /\ NumDays < 20 => Len(Breakouts.rows) = 0

Wit_C3 ==
    /\ pc = "identified"
    /\ Len(Breakouts.rows) > 0
    /\ \E t \in 0..(NumDays - 1) :
          /\ Day(t).avg_volume_20d.nan
          /\ Day(t).Volume > 0
          /\ Day(t).daily_pct_change.num
               > price_change_threshold * Day(t).daily_pct_change.den

(* C4: in the frame fetch_and_prepare_data returns, the rolling average is *)
(* undefined on days 0..18 and on every later day t it is the mean of the  *)
(* 20 volumes of days t-19..t; it is the same when computed from the       *)
(* series cut after day t.                                                 *)
Thm_C4 ==
    pc = "fetched" =>
        \A t \in 0..(NumDays - 1) :
            LET a == Day(t).avg_volume_20d
            IN  /\ t < 19 => a.nan
                /\ t >= 19 =>
                      /\ ~a.nan
                      /\ a.num * 20 = a.den * VolumeTotal((t - 19)..t)
                /\ a = fetch_and_prepare_data(RawSeries(t + 1))
                         .rows[t + 1].avg_volume_20d

Wit_C4 ==
    /\ pc = "fetched"
    /\ NumDays > 21
    /\ ~SameValue(Day(19).avg_volume_20d, Day(20).avg_volume_20d)
    /\ Day(21).Volume # Day(20).Volume

(* C5: the frame identify_breakout_days returns holds exactly the days     *)
(* whose two derived fields are defined and strictly exceed the two        *)
(* thresholds, in increasing order of label, each row as in the full       *)
(* series.                                                                 *)
Thm_C5 ==
    pc = "identified" =>
        /\ LabelSet(Breakouts)
             = {t \in 0..(NumDays - 1) :
                  Qualifies(t, volume_threshold, price_change_threshold)}
        /\ \A k \in 1..(Len(Breakouts.rows) - 1) :
              Breakouts.rows[k].name < Breakouts.rows[k + 1].name
        /\ \A k \in 1..Len(Breakouts.rows) :
              Breakouts.rows[k] = Day(Breakouts.rows[k].name)

Wit_C5 ==
    /\ pc = "identified"
    /\ Len(Breakouts.rows) > 0
    /\ \E t \in 0..(NumDays - 1) :
          /\ t \notin LabelSet(Breakouts)
          /\ ~Day(t).avg_volume_20d.nan
          /\ Day(t).Volume * 100 * Day(t).avg_volume_20d.den
               = volume_threshold * Day(t).avg_volume_20d.num
          /\ Day(t).daily_pct_change.num
               > price_change_threshold * Day(t).daily_pct_change.den

Thm_C7 ==
    "calculate" \in Range(calls) =>
        LET old == pre_calc.heap[pre_calc.bd]
        IN  /\ pc # "crashed"
            /\ Len(Breakouts.rows) = Len(old.rows)
            /\ \A k \in 1..Len(old.rows) :
                  /\ Breakouts.rows[k].name = old.rows[k].name
                  /\ old.rows[k].name + holding_period >= NumDays
                       => Breakouts.rows[k].holding_return.nan

Wit_C7 ==
    /\ pc = "calculated"
    /\ Len(Breakouts.rows) >= 2
    /\ \A k \in 1..Len(Breakouts.rows) : Breakouts.rows[k].holding_return.nan

(* C8: on a series of no observations the run does not fail and goes on to *)
(* its end; the enriched series, the breakout subset and the annotated     *)
(* result are empty.                                                       *)
Thm_C8 ==
    (HasData /\ NumDays = 0) =>
        /\ pc # "crashed"
        /\ pc # "done" => ENABLED Next
        /\ Data.rows = <<>>
        /\ HasBreakouts => Breakouts.rows = <<>>
        /\ ~csv.written

Wit_C8 ==
    /\ pc = "done"
    /\ HasData
    /\ NumDays = 0
    /\ calls = <<"fetch", "identify", "calculate">>
    /\ "holding_return" \in Breakouts.columns

(* Price thresholds compared with one another in C9.                       *)
PriceProbes == PriceThresholds \cup {-25, 0, 30}

(* C9: when identify_breakout_days has returned, for the fetched series    *)
(* and the volume threshold of the run, the days selected with a price     *)
(* threshold p2 are among those selected with any price threshold          *)
(* p1 <= p2.                                                               *)
Thm_C9 ==
    pc = "identified" =>
        \A p1 \in PriceProbes, p2 \in PriceProbes :
            p1 <= p2 =>
                LabelSet(identify_breakout_days(Data, volume_threshold, p2))
                  \subseteq
                LabelSet(identify_breakout_days(Data, volume_threshold, p1))

Wit_C9 ==
    /\ pc = "identified"
    /\ Len(Breakouts.rows) > 0
    /\ \E p1 \in PriceProbes :
          /\ p1 < price_change_threshold
          /\ LabelSet(Breakouts) #
               LabelSet(identify_breakout_days(Data, volume_threshold, p1))

(* C10: a failed fetch shows an error and runs nothing else; a run with no *)
(* qualifying day classifies and measures, writes no report and shows the  *)
(* warning; a report is written only after classification and measurement  *)
(* and only for a non-empty breakout subset.                               *)
Thm_C10 ==
    /\ "error" \in Range(ui) =>
          /\ calls = <<"fetch">>
          /\ pc = "done"
          /\ ~HasBreakouts
          /\ ~csv.written
    /\ (pc = "done" /\ HasData /\ Len(Breakouts.rows) = 0) =>
          /\ calls = <<"fetch", "identify", "calculate">>
          /\ ui = <<"warning">>
          /\ ~csv.written
    /\ csv.written =>
          /\ calls = <<"fetch", "identify", "calculate", "report">>
          /\ Len(Breakouts.rows) > 0
          /\ csv.rows = Breakouts.rows

Wit_C10 ==
    /\ pc = "done"
    /\ HasData
    /\ NumDays >= 20
    /\ ui = <<"warning">>
    /\ calls = <<"fetch", "identify", "calculate">>
    /\ ~csv.written

====
